---------------------------- MODULE Spec2Model ----------------------------
(***************************************************************************)
(* A model of the Signal / Property pair of the Event library.             *)
(*                                                                         *)
(* Signal<Args...> (Signal.h) keeps a std::map from slot id to callback    *)
(* and a counter; Property<T> (Property.h) holds a value, two signals and  *)
(* an optional binding to a source property.  Everything is synchronous:   *)
(* the model keeps an explicit call stack, and a public operation is       *)
(* started only when the stack is empty.                                   *)
(***************************************************************************)
EXTENDS Integers, Sequences, FiniteSets, TLC

VARIABLES
    m_value,          \* Property::m_value of each property
    m_connection,     \* Property::m_connection of each property
    m_connection_id,  \* Property::m_connection_id of each property
    m_slots,          \* Signal::m_slots of each signal
    m_id,             \* Signal::m_id of each signal
    stack,            \* the call stack
    log,              \* what the public operation in progress has done so far
    op,               \* the public operation in progress, or just returned
    pre,              \* the heap when that operation was called
    fault,            \* whether that operation has hit undefined behaviour
    former,           \* history: the source each property was last disconnected from
    destroyed         \* the properties whose lifetime has ended

vars == <<m_value, m_connection, m_connection_id, m_slots, m_id,
          stack, log, op, pre, fault, former, destroyed>>

(***************************************************************************)
(* Bounds of the model.                                                    *)
(***************************************************************************)
\* values of T are 0..MaxVal
MaxVal == 1
\* a signal hands out at most MaxId slot ids (m_id is a size_t in the code)
MaxId == 2
\* the float values of the demonstration program are the levels 0..MaxLevel
MaxLevel == 3

(***************************************************************************)
(* The objects.                                                            *)
(***************************************************************************)
Props == {"A", "B", "C"}
Vals == 0..MaxVal
nullptr == "nullptr"
\* std::size_t(-1), the id of a property that is not connected
NoId == 0 - 1
\* the end() iterator of m_slots
End == 0

on_change(p) == <<p, "m_on_change">>
prior_to_change(p) == <<p, "m_prior_to_change">>
\* a free-standing signal, as Person::say of the demonstration program
say == <<"Person", "say">>
PropSigs == {on_change(p) : p \in Props} \cup {prior_to_change(p) : p \in Props}
Sigs == PropSigs \cup {say}

(***************************************************************************)
(* Callbacks (the std::function values stored in m_slots).                 *)
(*   observer      a slot that only looks at its argument                  *)
(*   forward       the lambda of connect_from: prop.set(value)             *)
(*   connect       a slot that connects an observer to sig                 *)
(*   disconnect    a slot that calls sig.disconnect(id)                    *)
(*   disconnect_all a slot that calls sig.disconnect_all()                 *)
(*   derive        a slot that assigns prop = (argument > threshold)       *)
(*   set           a slot that calls prop.set(arg), unless it runs already *)
(***************************************************************************)
Callback(k, p, s, g, i, a) ==
    [kind |-> k, prop |-> p, src |-> s, sig |-> g, id |-> i, arg |-> a]
Observer == Callback("observer", nullptr, nullptr, say, 0, 0)
Forward(p) == Callback("forward", p, nullptr, say, 0, 0)
Connector(g) == Callback("connect", nullptr, nullptr, g, 0, 0)
Disconnector(g, i) == Callback("disconnect", nullptr, nullptr, g, i, 0)
Clearer(g) == Callback("disconnect_all", nullptr, nullptr, g, 0, 0)
\* the slot of test_property_2 that assigns p = (val > 0.5f)
Derive(p) == Callback("derive", p, nullptr, say, 0, 0)
\* a slot that reacts to a notification by calling p.set(w); it ignores the
\* notifications that its own call causes
Setter(p, w) == Callback("set", p, nullptr, say, 0, w)

NoSlots == [k \in {} |-> Observer]

(***************************************************************************)
(* The heap: the fields of every object, as one record, so that a method   *)
(* is a function from heap to heap whether it is called from outside or    *)
(* from inside a slot.                                                     *)
(***************************************************************************)
Heap == [m_value |-> m_value, m_connection |-> m_connection,
         m_connection_id |-> m_connection_id, m_slots |-> m_slots, m_id |-> m_id]

SetHeap(h) ==
    /\ m_value' = h.m_value
    /\ m_connection' = h.m_connection
    /\ m_connection_id' = h.m_connection_id
    /\ m_slots' = h.m_slots
    /\ m_id' = h.m_id

Keys(h, g) == DOMAIN h.m_slots[g]

\* a connect that inserts under the old counter value: make_pair(m_id++, slot)
SignalConnectPostIncrement(h, g, cb) ==
    LET id == h.m_id[g]
    IN  [h EXCEPT !.m_id[g] = id + 1,
                  !.m_slots[g] = [k \in Keys(h, g) \cup {id} |->
                                     IF k = id /\ k \notin Keys(h, g) THEN cb
                                     ELSE h.m_slots[g][k]]]

\* Signal::connect: m_slots.insert(std::make_pair(++m_id, slot)); return m_id
SignalConnect(h, g, cb) ==
    LET id == h.m_id[g] + 1
    IN  [h EXCEPT !.m_id[g] = id,
                  !.m_slots[g] = [k \in Keys(h, g) \cup {id} |->
                                     IF k = id /\ k \notin Keys(h, g) THEN cb
                                     ELSE h.m_slots[g][k]]]

\* a disconnect that erases every slot from id on: erase(find(id), end())
SignalDisconnectFrom(h, g, id) ==
    [h EXCEPT !.m_slots[g] = [k \in {j \in Keys(h, g) : j < id} |-> h.m_slots[g][k]]]

\* Signal::disconnect: m_slots.erase(id)
SignalDisconnect(h, g, id) ==
    [h EXCEPT !.m_slots[g] = [k \in Keys(h, g) \ {id} |-> h.m_slots[g][k]]]

\* a disconnect_all that also starts the ids again from zero
SignalDisconnectAllReset(h, g) == [h EXCEPT !.m_slots[g] = NoSlots, !.m_id[g] = 0]

\* Signal::disconnect_all: m_slots.clear()
SignalDisconnectAll(h, g) == [h EXCEPT !.m_slots[g] = NoSlots]

\* a silent write that also stores the value in every property bound from p
SetWithNoEmitMirrored(h, p, v) ==
    [h EXCEPT !.m_value = [q \in Props |->
                              IF q = p \/ h.m_connection[q] = p THEN v ELSE h.m_value[q]]]

\* Property::set_with_no_emit
SetWithNoEmit(h, p, v) == [h EXCEPT !.m_value[p] = v]

\* a disconnect that clears the record and leaves the slot connected
DisconnectRecordOnly(h, p) ==
    IF h.m_connection[p] = nullptr THEN h
    ELSE [h EXCEPT !.m_connection_id[p] = NoId, !.m_connection[p] = nullptr]

\* Property::disconnect
Disconnect(h, p) ==
    IF h.m_connection[p] = nullptr THEN h
    ELSE LET h1 == SignalDisconnect(h, on_change(h.m_connection[p]), h.m_connection_id[p])
         IN  [h1 EXCEPT !.m_connection_id[p] = NoId, !.m_connection[p] = nullptr]

\* a connect_from that does not call disconnect() first
ConnectFromNoTeardown(h, p, s) ==
    LET h2 == SignalConnect(h, on_change(s), Forward(p))
    IN  [h2 EXCEPT !.m_connection[p] = s, !.m_connection_id[p] = h2.m_id[on_change(s)]]

\* Property::connect_from up to its last statement, set(source.get())
ConnectFromRecord(h, p, s) ==
    LET h1 == Disconnect(h, p)
        h2 == SignalConnect(h1, on_change(s), Forward(p))
    IN  [h2 EXCEPT !.m_connection[p] = s, !.m_connection_id[p] = h2.m_id[on_change(s)]]

\* Property::disconnect_auditors
DisconnectAuditors(h, p) ==
    SignalDisconnectAll(SignalDisconnectAll(h, on_change(p)), prior_to_change(p))

(***************************************************************************)
(* Stack frames.  pc names the statement the frame executes next.          *)
(***************************************************************************)
\* old is the value a set has passed to m_prior_to_change
Frame(f, p, s, g, a, i, c) ==
    [fn |-> f, self |-> p, src |-> s, sig |-> g, arg |-> a, it |-> i, pc |-> c,
     old |-> 0]
\* set(const T& value) called with a value the caller owns
SetFrame(p, v) == Frame("set", p, nullptr, say, v, End, "check")
\* a connect_from that ends with set(get()): the property's own value
SetFrameOwn(p, s) == Frame("set", p, p, say, 0, End, "check")

\* set(source.get()): value is a reference to the m_value of src
SetFrameRef(p, s) == Frame("set", p, s, say, 0, End, "check")
\* a touch that emits m_on_change only
TouchFrameOnOnly(p) == Frame("touch", p, nullptr, say, 0, End, "on")

\* Property::touch
TouchFrame(p) == Frame("touch", p, nullptr, say, 0, End, "prior")

Min(S) == CHOOSE x \in S : \A y \in S : x <= y

\* an iteration that steps to the key before k
SuccessorDescending(keys, k) ==
    IF {j \in keys : j < k} = {} THEN End
    ELSE CHOOSE x \in {j \in keys : j < k} : \A y \in {j \in keys : j < k} : y <= x

\* std::map iteration: the first key, and the key after k
Begin(keys) == IF keys = {} THEN End ELSE Min(keys)
Successor(keys, k) == Begin({j \in keys : j > k})

EmitFrame(h, g, a) == Frame("emit", nullptr, nullptr, g, a, Begin(Keys(h, g)), "call")

Top == stack[Len(stack)]
Pop(st) == SubSeq(st, 1, Len(st) - 1)
Push(st, f) == Append(st, f)
ReplaceTop(st, f) == [st EXCEPT ![Len(st)] = f]

\* return through every frame that has nothing left to do
RECURSIVE Unwind(_)
Unwind(st) ==
    IF st # <<>> /\ st[Len(st)].pc = "ret" THEN Unwind(Pop(st)) ELSE st

\* an emit whose loop body never runs
EnterSkipsSlots(st, h, g, a) == Unwind(st)

\* Signal::emit is entered: for (auto it : m_slots) starts at begin(); over an
\* empty map the loop body never runs and emit returns at once
Enter(st, h, g, a) ==
    IF Keys(h, g) = {} THEN Unwind(st) ELSE Push(st, EmitFrame(h, g, a))

\* fault: "ok", "ub" (the operation in progress has advanced an iterator of an
\* erased map node) or "crashed" (the process died of it)
Running == stack # <<>> /\ fault # "crashed"

(***************************************************************************)
(* The log of the public operation in progress (or last completed).        *)
(***************************************************************************)
Event(e, at, i, a) == [ev |-> e, at |-> at, id |-> i, arg |-> a]
EmitEvent(g, a) == Event("emit", g, 0, a)
CallEvent(g, i, a) == Event("call", g, i, a)
StoreEvent(p, v) == Event("store", <<p, "m_value">>, 0, v)

Op(n, p, s, g, a, i) == [name |-> n, self |-> p, src |-> s, sig |-> g, arg |-> a, id |-> i]
NoOp == Op("none", nullptr, nullptr, say, 0, 0)

\* the caller is between two public operations
Idle == stack = <<>> /\ op = NoOp /\ fault # "crashed"
\* a public operation has just returned to its caller
Returned == stack = <<>> /\ op # NoOp /\ fault # "crashed"

\* former[p] is the source that p's binding was torn down from by p's latest
\* connect_from (nullptr if p was not bound then) or, since then, by p.disconnect().
\* So p unbound with former[p] = s has been disconnected from s, and p bound from
\* s2 with former[p] = s has been rebound from s to s2 by one connect_from.

\* a public operation starts on live objects: remember the heap it starts from
Start(o) ==
    /\ Idle
    /\ o.self \notin destroyed /\ o.src \notin destroyed
    /\ UNCHANGED destroyed
    /\ op' = o
    /\ pre' = Heap
    /\ fault' = "ok"

Init ==
    /\ m_value = [p \in Props |-> 0]
    /\ m_connection = [p \in Props |-> nullptr]
    /\ m_connection_id = [p \in Props |-> NoId]
    /\ m_slots = [g \in Sigs |-> NoSlots]
    /\ m_id = [g \in Sigs |-> 0]
    /\ stack = <<>>
    /\ log = <<>>
    /\ op = NoOp
    /\ pre = [m_value |-> m_value, m_connection |-> m_connection,
              m_connection_id |-> m_connection_id, m_slots |-> m_slots, m_id |-> m_id]
    /\ fault = "ok"
    /\ former = [p \in Props |-> nullptr]
    /\ destroyed = {}

(***************************************************************************)
(* Public operations of Property.                                          *)
(***************************************************************************)
\* static_cast<T>(xi_value) of operator=(const U&), for U = bool and T integral
StaticCast(u) == IF u THEN 1 ELSE 0

\* The text a stream holds: a number, text that is no number, or nothing.
Streams == {<<"number", v>> : v \in Vals} \cup {<<"text", 0>>, <<"eof", 0>>}

\* T tmp; xi_stream >> tmp: the values tmp may hold afterwards.  A failed
\* parse stores 0; at end of input tmp is never written and stays uninitialised.
Extracted(s) ==
    CASE s[1] = "number" -> {s[2]}
      [] s[1] = "text" -> {0}
      [] OTHER -> Vals

\* Property::set, called from outside
CallSet(p, v) ==
    /\ Start(Op("set", p, nullptr, say, v, 0))
    /\ UNCHANGED former
    /\ stack' = <<SetFrame(p, v)>>
    /\ log' = <<>>
    /\ UNCHANGED <<m_value, m_connection, m_connection_id, m_slots, m_id>>

\* Property::operator=(const U&)
CallAssign(p, u) ==
    /\ Start(Op("operator=", p, nullptr, say, StaticCast(u), 0))
    /\ UNCHANGED former
    /\ stack' = <<SetFrame(p, StaticCast(u))>>
    /\ log' = <<>>
    /\ UNCHANGED <<m_value, m_connection, m_connection_id, m_slots, m_id>>

\* operator>>(std::istream&, Property<T>&)
CallExtract(p, s) ==
    \E tmp \in Extracted(s) :
        /\ Start(Op("operator>>", p, nullptr, say, tmp, 0))
        /\ UNCHANGED former
        /\ stack' = <<SetFrame(p, tmp)>>
        /\ log' = <<>>
        /\ UNCHANGED <<m_value, m_connection, m_connection_id, m_slots, m_id>>

\* Property::set_with_no_emit
CallSetWithNoEmit(p, v) ==
    /\ Start(Op("set_with_no_emit", p, nullptr, say, v, 0))
    /\ UNCHANGED former
    /\ SetHeap(SetWithNoEmit(Heap, p, v))
    /\ stack' = <<>>
    /\ log' = <<>>

\* Property::touch
CallTouch(p) ==
    /\ Start(Op("touch", p, nullptr, say, 0, 0))
    /\ UNCHANGED former
    /\ stack' = <<TouchFrame(p)>>
    /\ log' = <<>>
    /\ UNCHANGED <<m_value, m_connection, m_connection_id, m_slots, m_id>>

\* Property::connect_from
CallConnectFrom(p, s) ==
    /\ m_id[on_change(s)] < MaxId
    /\ Start(Op("connect_from", p, s, say, 0, 0))
    /\ former' = [former EXCEPT ![p] = m_connection[p]]
    /\ SetHeap(ConnectFromRecord(Heap, p, s))
    /\ stack' = <<SetFrameRef(p, s)>>
    /\ log' = <<>>

\* Property::disconnect
CallDisconnect(p) ==
    /\ Start(Op("disconnect", p, nullptr, say, 0, 0))
    /\ former' = [former EXCEPT ![p] = IF m_connection[p] # nullptr
                                        THEN m_connection[p] ELSE former[p]]
    /\ SetHeap(Disconnect(Heap, p))
    /\ stack' = <<>>
    /\ log' = <<>>

\* Property::disconnect_auditors
CallDisconnectAuditors(p) ==
    /\ Start(Op("disconnect_auditors", p, nullptr, say, 0, 0))
    /\ UNCHANGED former
    /\ SetHeap(DisconnectAuditors(Heap, p))
    /\ stack' = <<>>
    /\ log' = <<>>

\* The lifetime of property p ends.  Property declares no destructor: the
\* implicit one destroys the two signals with their slot tables and leaves the
\* other fields and every other object as they are.  The caller destroys only a
\* property that no other property records as its source.
Destroy(p) ==
    /\ Idle
    /\ p \notin destroyed
    /\ \A q \in Props \ destroyed : m_connection[q] # p
    /\ destroyed' = destroyed \cup {p}
    /\ op' = Op("~Property", p, nullptr, say, 0, 0)
    /\ pre' = Heap
    /\ fault' = "ok"
    /\ SetHeap(DisconnectAuditors(Heap, p))
    /\ stack' = <<>>
    /\ log' = <<>>
    /\ UNCHANGED former

(***************************************************************************)
(* Public operations of Signal.                                            *)
(***************************************************************************)
\* Signal::connect
CallSignalConnect(g, cb) ==
    /\ m_id[g] < MaxId
    /\ Start(Op("connect", nullptr, nullptr, g, 0, m_id[g] + 1))
    /\ UNCHANGED former
    /\ SetHeap(SignalConnect(Heap, g, cb))
    /\ stack' = <<>>
    /\ log' = <<>>

\* Signal::disconnect
CallSignalDisconnect(g, id) ==
    /\ Start(Op("signal_disconnect", nullptr, nullptr, g, 0, id))
    /\ UNCHANGED former
    /\ SetHeap(SignalDisconnect(Heap, g, id))
    /\ stack' = <<>>
    /\ log' = <<>>

\* Signal::disconnect_all
CallSignalDisconnectAll(g) ==
    /\ Start(Op("disconnect_all", nullptr, nullptr, g, 0, 0))
    /\ UNCHANGED former
    /\ SetHeap(SignalDisconnectAll(Heap, g))
    /\ stack' = <<>>
    /\ log' = <<>>

\* Signal::emit, called from outside
CallEmit(g, x) ==
    /\ Start(Op("emit", nullptr, nullptr, g, x, 0))
    /\ UNCHANGED former
    /\ stack' = Enter(<<>>, Heap, g, x)
    /\ log' = <<EmitEvent(g, x)>>
    /\ UNCHANGED <<m_value, m_connection, m_connection_id, m_slots, m_id>>

(***************************************************************************)
(* Steps of the call on top of the stack.                                  *)
(***************************************************************************)
\* the value a set frame's parameter (a const T&) denotes now
Value(f) == IF f.src = nullptr THEN f.arg ELSE m_value[f.src]

\* a set that never returns early
SetSkipsNever(cur, value) == FALSE

\* Property::set: if (value == m_value) return;
SetSkips(cur, value) == value = cur

\* a set that emits prior_to_change after the store, with the new value
PriorArgNew(cur, value) == value

\* Property::set: the argument of m_prior_to_change.emit(m_value), before the store
PriorArg(cur, value) == cur

\* Property::set: the equality test, then m_prior_to_change.emit(m_value)
SetCheck ==
    /\ Running
    /\ Top.fn = "set" /\ Top.pc = "check"
    /\ IF SetSkips(m_value[Top.self], Value(Top))
       THEN /\ stack' = Unwind(Pop(stack))
            /\ log' = log
       ELSE LET x == PriorArg(m_value[Top.self], Value(Top))
            IN  /\ stack' = Enter(ReplaceTop(stack, [Top EXCEPT !.pc = "store", !.old = x]),
                                  Heap, prior_to_change(Top.self), x)
                /\ log' = Append(log, EmitEvent(prior_to_change(Top.self), x))
    /\ UNCHANGED <<m_value, m_connection, m_connection_id, m_slots, m_id, op, pre, fault, former, destroyed>>

\* Property::set: m_value = value; m_on_change.emit(m_value);
SetStore ==
    /\ Running
    /\ Top.fn = "set" /\ Top.pc = "store"
    /\ LET v == Value(Top)
           p == Top.self
       IN  /\ m_value' = [m_value EXCEPT ![p] = v]
           /\ stack' = Enter(ReplaceTop(stack, [Top EXCEPT !.pc = "ret"]),
                             Heap, on_change(p), v)
           /\ log' = log \o <<StoreEvent(p, v), EmitEvent(on_change(p), v)>>
    /\ UNCHANGED <<m_connection, m_connection_id, m_slots, m_id, op, pre, fault, former, destroyed>>

\* Property::touch: m_prior_to_change.emit(m_value);
TouchPrior ==
    /\ Running
    /\ Top.fn = "touch" /\ Top.pc = "prior"
    /\ stack' = Enter(ReplaceTop(stack, [Top EXCEPT !.pc = "on"]),
                      Heap, prior_to_change(Top.self), m_value[Top.self])
    /\ log' = Append(log, EmitEvent(prior_to_change(Top.self), m_value[Top.self]))
    /\ UNCHANGED <<m_value, m_connection, m_connection_id, m_slots, m_id, op, pre, fault, former, destroyed>>

\* Property::touch: m_on_change.emit(m_value);
TouchOn ==
    /\ Running
    /\ Top.fn = "touch" /\ Top.pc = "on"
    /\ stack' = Enter(ReplaceTop(stack, [Top EXCEPT !.pc = "ret"]),
                      Heap, on_change(Top.self), m_value[Top.self])
    /\ log' = Append(log, EmitEvent(on_change(Top.self), m_value[Top.self]))
    /\ UNCHANGED <<m_value, m_connection, m_connection_id, m_slots, m_id, op, pre, fault, former, destroyed>>

\* what a slot does to the heap before any call it makes that can emit
InvokeHeap(h, cb) ==
    CASE cb.kind = "connect" -> SignalConnect(h, cb.sig, Observer)
      [] cb.kind = "disconnect" -> SignalDisconnect(h, cb.sig, cb.id)
      [] cb.kind = "disconnect_all" -> SignalDisconnectAll(h, cb.sig)
      [] OTHER -> h

\* The floats of test_property_2 in steps of 0.2: 0.2, 0.4 and 0.6 are the levels
\* 1, 2 and 3, and val > 0.5f holds from level 3 on, that is for val > Threshold.
Threshold == 2

\* a comparison that also takes the last value below 0.5f for critical
ExceedsOrReaches(val) == val >= Threshold

\* val > 0.5f
Exceeds(val) == val > Threshold

\* the slot that the emit on top of the stack is about to call is running
\* already, further down the stack
Busy ==
    \E i \in 1..Len(stack) - 1 :
        /\ stack[i].fn = "emit" /\ stack[i].pc = "advance"
        /\ stack[i].sig = Top.sig /\ stack[i].it = Top.it

\* a forwarder that calls set(get()): the property's own value
InvokeFramesOwn(cb, x) ==
    IF cb.kind = "forward" THEN <<SetFrameRef(cb.prop, cb.prop)>> ELSE <<>>

\* the call a slot makes that can emit, as the frames it pushes
InvokeFrames(cb, x) ==
    CASE cb.kind = "forward" -> <<SetFrame(cb.prop, x)>>
      [] cb.kind = "derive" -> <<SetFrame(cb.prop, StaticCast(Exceeds(x)))>>
      [] cb.kind = "set" -> IF Busy THEN <<>> ELSE <<SetFrame(cb.prop, cb.arg)>>
      [] OTHER -> <<>>

\* the slot's connect needs a fresh id within the model's bound
InvokeInBounds(h, cb) ==
    cb.kind = "connect" => h.m_id[cb.sig] < MaxId

\* the slot is a forwarder whose captured this points to a destroyed property
Dangling(cb) == cb.kind = "forward" /\ cb.prop \in destroyed

\* How the call of a slot can go.  A forwarder with a dangling this calls the
\* virtual set through freed memory: the call may run as if the object were
\* still there, do nothing visible, or kill the process.
Outcomes(cb) == IF Dangling(cb) THEN {"run", "skip", "crash"} ELSE {"run"}

\* Signal::emit: auto it = *iterator; it.second(p...);
EmitCall ==
    /\ Running
    /\ Top.fn = "emit" /\ Top.pc = "call"
    /\ LET cb == m_slots[Top.sig][Top.it]
       IN  /\ InvokeInBounds(Heap, cb)
           /\ SetHeap(InvokeHeap(Heap, cb))
           /\ \E o \in Outcomes(cb) :
                 /\ stack' = ReplaceTop(stack, [Top EXCEPT !.pc = "advance"])
                             \o (IF o = "run" THEN InvokeFrames(cb, Top.arg) ELSE <<>>)
                 /\ fault' = CASE o = "crash" -> "crashed"
                                [] Dangling(cb) -> "ub"
                                [] OTHER -> fault
           /\ log' = Append(log, CallEvent(Top.sig, Top.it, Top.arg))
    /\ UNCHANGED <<op, pre, former, destroyed>>

Crash == 0 - 1

\* ++iterator: the next node of the live map.  Advancing from a node that has
\* been erased reads freed memory: the iterator may land on any node or on
\* end(), or the process may die.
Advance(keys, it) ==
    IF it \in keys THEN {Successor(keys, it)}
    ELSE keys \cup {End, Crash}

\* Signal::emit: the loop's ++iterator, and the return once it is end()
EmitAdvance ==
    /\ Running
    /\ Top.fn = "emit" /\ Top.pc = "advance"
    /\ \E nxt \in Advance(DOMAIN m_slots[Top.sig], Top.it) :
          /\ stack' = CASE nxt = Crash -> stack
                         [] nxt = End -> Unwind(Pop(stack))
                         [] OTHER -> ReplaceTop(stack, [Top EXCEPT !.pc = "call", !.it = nxt])
          /\ fault' = IF nxt = Crash THEN "crashed"
                      ELSE IF Top.it \in DOMAIN m_slots[Top.sig] THEN fault ELSE "ub"
    /\ UNCHANGED <<m_value, m_connection, m_connection_id, m_slots, m_id, log, op, pre, former, destroyed>>

\* The caller goes on after the operation it called has returned: what the
\* model remembered of that operation is dropped.
Return ==
    /\ Returned
    /\ op' = NoOp
    /\ pre' = Heap
    /\ log' = <<>>
    /\ fault' = "ok"
    /\ UNCHANGED <<m_value, m_connection, m_connection_id, m_slots, m_id, stack, former, destroyed>>

(***************************************************************************)
(* Specifications.  Each one lets the caller use the public operations on  *)
(* a small set of objects.                                                 *)
(***************************************************************************)
\* Spec: three properties and the bindings A from B, C from B, A from C: two
\* dependents of one source, a chain, and a property that can be rebound.
Links == {<<"A", "B">>, <<"C", "B">>, <<"A", "C">>}

Next ==
    \/ \E p \in Props, v \in Vals : CallSet(p, v)
    \/ \E p \in Props, v \in Vals : CallSetWithNoEmit(p, v)
    \/ \E p \in Props : CallTouch(p)
    \/ \E l \in Links : CallConnectFrom(l[1], l[2])
    \/ \E p \in Props : CallDisconnect(p)
    \/ \E p \in Props : CallDisconnectAuditors(p)
    \/ SetCheck \/ SetStore \/ TouchPrior \/ TouchOn \/ EmitCall \/ EmitAdvance
    \/ Return

Spec == Init /\ [][Next]_vars

\* SpecCycle: two properties bound from each other, and one bound from itself.
CycleProps == {"A", "B"}
CycleLinks == {<<"A", "B">>, <<"B", "A">>, <<"A", "A">>}

NextCycle ==
    \/ \E p \in CycleProps, v \in Vals : CallSet(p, v)
    \/ \E p \in CycleProps, v \in Vals : CallSetWithNoEmit(p, v)
    \/ \E p \in CycleProps : CallTouch(p)
    \/ \E l \in CycleLinks : CallConnectFrom(l[1], l[2])
    \/ \E p \in CycleProps : CallDisconnect(p)
    \/ \E p \in CycleProps : CallDisconnectAuditors(p)
    \/ SetCheck \/ SetStore \/ TouchPrior \/ TouchOn \/ EmitCall \/ EmitAdvance
    \/ Return

SpecCycle == Init /\ [][NextCycle]_vars

\* a call that is running executes its next statement
Step == SetCheck \/ SetStore \/ TouchPrior \/ TouchOn \/ EmitCall \/ EmitAdvance

\* SpecCycleLive: SpecCycle, in which a running call keeps running.
SpecCycleLive == SpecCycle /\ WF_vars(Step)

\* SpecObserved: property B with observers on both of its signals and the
\* dependent A, written through set, operator= and operator>>.
NextObserved ==
    \/ \E v \in Vals : CallSet("B", v)
    \/ \E u \in BOOLEAN : CallAssign("B", u)
    \/ \E s \in Streams : CallExtract("B", s)
    \/ \E v \in Vals : CallSetWithNoEmit("B", v)
    \/ CallTouch("B")
    \/ CallConnectFrom("A", "B")
    \/ CallDisconnect("A")
    \/ \E g \in {on_change("B"), prior_to_change("B")} : CallSignalConnect(g, Observer)
    \/ \E g \in {on_change("B"), prior_to_change("B")}, id \in 1..MaxId :
          CallSignalDisconnect(g, id)
    \/ SetCheck \/ SetStore \/ TouchPrior \/ TouchOn \/ EmitCall \/ EmitAdvance
    \/ Return

SpecObserved == Init /\ [][NextObserved]_vars

\* SpecSignal: the free-standing signal, with slots that observe and slots that
\* connect to or disconnect from the signal while it emits.
SaySlots ==
    {Observer, Connector(say), Clearer(say)} \cup {Disconnector(say, i) : i \in 1..MaxId}

NextSignal ==
    \/ \E cb \in SaySlots : CallSignalConnect(say, cb)
    \/ \E id \in 1..MaxId : CallSignalDisconnect(say, id)
    \/ CallSignalDisconnectAll(say)
    \/ \E x \in Vals : CallEmit(say, x)
    \/ EmitCall \/ EmitAdvance
    \/ Return

SpecSignal == Init /\ [][NextSignal]_vars

\* SpecFlag: test_property_2.  OutputValue is bound from InputValue, a slot on
\* OutputValue's on_change assigns CriticalSituation = (val > 0.5f), a logger
\* listens to CriticalSituation's on_change, and the program then sets InputValue.
InputValue == "B"
OutputValue == "A"
CriticalSituation == "C"
Levels == 0..MaxLevel

\* the heap after the three properties are constructed
Constructed ==
    [m_value |-> [p \in Props |-> 0],
     m_connection |-> [p \in Props |-> nullptr],
     m_connection_id |-> [p \in Props |-> NoId],
     m_slots |-> [g \in Sigs |-> NoSlots],
     m_id |-> [g \in Sigs |-> 0]]

\* the heap after the program has wired them: connect_from finds equal values,
\* so its set(source.get()) returns at once
Wired ==
    SignalConnect(
        SignalConnect(ConnectFromRecord(Constructed, OutputValue, InputValue),
                      on_change(OutputValue), Derive(CriticalSituation)),
        on_change(CriticalSituation), Observer)

InitFlag ==
    /\ m_value = Wired.m_value
    /\ m_connection = Wired.m_connection
    /\ m_connection_id = Wired.m_connection_id
    /\ m_slots = Wired.m_slots
    /\ m_id = Wired.m_id
    /\ stack = <<>>
    /\ log = <<>>
    /\ op = NoOp
    /\ pre = Wired
    /\ fault = "ok"
    /\ former = [p \in Props |-> nullptr]
    /\ destroyed = {}

NextFlag ==
    \/ \E v \in Levels : CallSet(InputValue, v)
    \/ SetCheck \/ SetStore \/ EmitCall \/ EmitAdvance
    \/ Return

SpecFlag == InitFlag /\ [][NextFlag]_vars

\* SpecReentrant: property B with observers and with slots that call B.set from
\* inside B's prior_to_change or on_change.
ReentrantSlots == {Observer} \cup {Setter("B", w) : w \in Vals}

NextReentrant ==
    \/ \E v \in Vals : CallSet("B", v)
    \/ \E g \in {on_change("B"), prior_to_change("B")} :
          \E cb \in ReentrantSlots : CallSignalConnect(g, cb)
    \/ SetCheck \/ SetStore \/ EmitCall \/ EmitAdvance
    \/ Return

SpecReentrant == Init /\ [][NextReentrant]_vars

\* SpecLifetime: the source B and its dependents A and C, whose lifetimes can end.
LifetimeLinks == {<<"A", "B">>, <<"C", "B">>}

NextLifetime ==
    \/ \E p \in Props, v \in Vals : CallSet(p, v)
    \/ CallTouch("B")
    \/ \E l \in LifetimeLinks : CallConnectFrom(l[1], l[2])
    \/ \E l \in LifetimeLinks : CallDisconnect(l[1])
    \/ \E l \in LifetimeLinks : Destroy(l[1])
    \/ SetCheck \/ SetStore \/ TouchPrior \/ TouchOn \/ EmitCall \/ EmitAdvance
    \/ Return

SpecLifetime == Init /\ [][NextLifetime]_vars

(***************************************************************************)
(* Reading the log.                                                        *)
(***************************************************************************)
\* the keys of a slot table in the order std::map iterates them
RECURSIVE Ascending(_)
Ascending(keys) ==
    IF keys = {} THEN <<>>
    ELSE <<Min(keys)>> \o Ascending(keys \ {Min(keys)})

\* the invocations of the slots of signal g, in the order they happened
CallsOf(l, g) == SelectSeq(l, LAMBDA e : e.ev = "call" /\ e.at = g)

\* one invocation with argument x of each slot of table t of signal g, ascending
EachOnce(t, g, x) ==
    LET ks == Ascending(DOMAIN t)
    IN  [i \in 1..Len(ks) |-> CallEvent(g, ks[i], x)]

\* a slot that neither connects nor disconnects anything
Passive(cb) == cb.kind \in {"observer", "forward"}

AllPassive(t) == \A k \in DOMAIN t : Passive(t[k])

\* in heap h the forwarder that a's binding record names is connected
Forwarded(h, a) ==
    /\ h.m_connection[a] # nullptr
    /\ h.m_connection_id[a] \in DOMAIN h.m_slots[on_change(h.m_connection[a])]
    /\ h.m_slots[on_change(h.m_connection[a])][h.m_connection_id[a]] = Forward(a)

(***************************************************************************)
(* Claims about Signal, under SpecSignal.                                  *)
(***************************************************************************)
\* C3: after connect(c1..cn), an emit(x) during which nothing is connected or
\* disconnected invokes every connected slot exactly once with x, in ascending
\* id order, before emit returns.
C3_EmitInvokesEachOnceInOrder ==
    (Returned /\ op.name = "emit" /\ AllPassive(pre.m_slots[op.sig]))
        => /\ CallsOf(log, op.sig) = EachOnce(pre.m_slots[op.sig], op.sig, op.arg)
           /\ Len(log) = 1 + Cardinality(DOMAIN pre.m_slots[op.sig])
           /\ fault = "ok"

\* C3's case: an emit over two connected slots has returned
C3_Witness ==
    /\ Returned /\ op.name = "emit"
    /\ AllPassive(pre.m_slots[op.sig])
    /\ Cardinality(DOMAIN pre.m_slots[op.sig]) >= 2
    /\ Len(CallsOf(log, op.sig)) >= 2

\* C7: emit works on the slots connected when it was entered: a slot that is
\* connected while the emit is in progress is not invoked by that emit.
C7_EmitInvokesOnlyTheSnapshot ==
    op.name = "emit" =>
        \A i \in 1..Len(log) :
            (log[i].ev = "call" /\ log[i].at = op.sig)
                => log[i].id \in DOMAIN pre.m_slots[op.sig]

\* C8: while a slot disconnects slots of the signal that is emitting, the loop
\* never advances from an erased map node, and every slot that is still
\* connected when emit returns has been invoked exactly once.
C8_DisconnectDuringEmitIsSafe ==
    /\ (Running /\ Top.fn = "emit" /\ Top.pc = "advance")
          => Top.it \in DOMAIN m_slots[Top.sig]
    /\ fault = "ok"
    /\ (Returned /\ op.name = "emit") =>
          \A k \in DOMAIN m_slots[op.sig] \cap DOMAIN pre.m_slots[op.sig] :
              Len(SelectSeq(CallsOf(log, op.sig), LAMBDA e : e.id = k)) = 1

\* C14: every id that connect returns is greater than every id the signal has
\* returned before (they are 1..m_id), also after disconnect or disconnect_all
\* removed entries: the counter never goes back, and a key that appears in the
\* table is always greater than every id handed out so far, so an id a caller
\* still holds never comes to designate a later slot.
C14_IdsNeverReused ==
    /\ []((Returned /\ op.name = "connect")
            => /\ op.id = m_id[op.sig]
               /\ op.id > pre.m_id[op.sig]
               /\ op.id \in DOMAIN m_slots[op.sig]
               /\ op.id \notin DOMAIN pre.m_slots[op.sig])
    /\ [](\A g \in Sigs : \A k \in DOMAIN m_slots[g] : k <= m_id[g])
    /\ [][\A g \in Sigs :
            /\ m_id'[g] >= m_id[g]
            /\ \A k \in DOMAIN m_slots'[g] \ DOMAIN m_slots[g] :
                  k > m_id[g] /\ k <= m_id'[g]]_vars

\* C14's case: connect has returned a fresh id on a signal whose earlier slots
\* have all been removed
C14_Witness ==
    /\ Returned /\ op.name = "connect"
    /\ pre.m_id[op.sig] >= 1
    /\ DOMAIN pre.m_slots[op.sig] = {}
    /\ DOMAIN m_slots[op.sig] = {op.id}
    /\ op.id = pre.m_id[op.sig] + 1

\* C15: disconnect(id) removes exactly the slot with that id and leaves every
\* other slot and the id counter as they were; for an id that is not connected
\* it changes nothing and raises no error; and an emit invokes exactly the slots
\* that are left, in ascending id order.
C15_DisconnectRemovesExactlyOne ==
    /\ (Returned /\ op.name = "signal_disconnect")
          => /\ Heap = [pre EXCEPT !.m_slots[op.sig] =
                            [k \in DOMAIN pre.m_slots[op.sig] \ {op.id} |->
                                pre.m_slots[op.sig][k]]]
             /\ op.id \notin DOMAIN pre.m_slots[op.sig] => Heap = pre
             /\ log = <<>> /\ fault = "ok"
    /\ (Returned /\ op.name = "emit" /\ AllPassive(pre.m_slots[op.sig]))
          => [i \in 1..Len(CallsOf(log, op.sig)) |-> CallsOf(log, op.sig)[i].id]
                = Ascending(DOMAIN pre.m_slots[op.sig])

\* C15's case: disconnect has removed the first of two slots and left the other
C15_Witness ==
    /\ Returned /\ op.name = "signal_disconnect"
    /\ op.id \in DOMAIN pre.m_slots[op.sig]
    /\ \E k \in DOMAIN m_slots[op.sig] : k > op.id

(***************************************************************************)
(* Claims about a write to an observed property, under SpecObserved.       *)
(***************************************************************************)
\* the operations that write through Property::set
Writes == {"set", "operator=", "operator>>"}

\* what the log says about property p itself: its two signals and its value
OwnEvents(l, p) ==
    SelectSeq(l, LAMBDA e : e.at \in {prior_to_change(p), on_change(p), <<p, "m_value">>})

\* the same without the invocations of the slots
Fired(l, p) == SelectSeq(OwnEvents(l, p), LAMBDA e : e.ev # "call")

\* a change of p from old to new as seen by the slots that heap h connects
ChangeTrace(h, p, old, new) ==
    <<EmitEvent(prior_to_change(p), old)>>
    \o EachOnce(h.m_slots[prior_to_change(p)], prior_to_change(p), old)
    \o <<StoreEvent(p, new), EmitEvent(on_change(p), new)>>
    \o EachOnce(h.m_slots[on_change(p)], on_change(p), new)

\* C1: a write of a value different from the held one, through set, operator= or
\* operator>>, invokes every prior_to_change slot once with the old value, then
\* stores, then invokes every on_change slot once with the new value, all
\* before the write returns.
C1_ChangeNotifiesBeforeThenAfter ==
    (Returned /\ op.name \in Writes /\ op.arg # pre.m_value[op.self])
        => /\ OwnEvents(log, op.self)
                = ChangeTrace(pre, op.self, pre.m_value[op.self], op.arg)
           /\ m_value[op.self] = op.arg

\* C1's case: a value read from a stream has changed a property with a slot on
\* prior_to_change and two slots, an observer and a forwarder, on on_change
C1_Witness ==
    /\ Returned /\ op.name = "operator>>" /\ op.arg # pre.m_value[op.self]
    /\ DOMAIN pre.m_slots[prior_to_change(op.self)] # {}
    /\ \E j, k \in DOMAIN pre.m_slots[on_change(op.self)] :
          /\ pre.m_slots[on_change(op.self)][j] = Observer
          /\ pre.m_slots[on_change(op.self)][k].kind = "forward"
    /\ Len(CallsOf(log, on_change(op.self))) = 2

\* C2: a write of the value the property already holds invokes no slot of
\* either signal, leaves the value as it is and updates no bound property.
C2_EqualWriteIsSilent ==
    (Returned /\ op.name \in Writes /\ op.arg = pre.m_value[op.self])
        => /\ log = <<>>
           /\ Heap = pre

\* C2's case: an equal write to a property that has slots on both signals, one
\* of them the forwarder of a bound property, has returned
C2_Witness ==
    /\ Returned /\ op.name = "set" /\ op.arg = pre.m_value[op.self]
    /\ DOMAIN pre.m_slots[prior_to_change(op.self)] # {}
    /\ \E k \in DOMAIN pre.m_slots[on_change(op.self)] :
          pre.m_slots[on_change(op.self)][k].kind = "forward"

\* C16: set_with_no_emit(v) makes get() = v and invokes no slot of either signal,
\* whether or not v is the value held; nothing else changes, in particular no
\* property bound from this one.
C16_SilentWriteNotifiesNobody ==
    (Returned /\ op.name = "set_with_no_emit")
        => /\ m_value[op.self] = op.arg
           /\ log = <<>>
           /\ Heap = [pre EXCEPT !.m_value[op.self] = op.arg]

\* C16's case: a silent write of a new value to a property that has slots on both
\* signals and a bound dependent, which keeps the old value
C16_Witness ==
    /\ Returned /\ op.name = "set_with_no_emit" /\ op.arg # pre.m_value[op.self]
    /\ DOMAIN pre.m_slots[prior_to_change(op.self)] # {}
    /\ \E k \in DOMAIN pre.m_slots[on_change(op.self)] :
          pre.m_slots[on_change(op.self)][k] = Observer
    /\ \E a \in Props :
          /\ pre.m_connection[a] = op.self /\ Forwarded(pre, a)
          /\ m_value[a] = pre.m_value[op.self]

\* what touch() makes p's two signals do, given the slots heap h connects
TouchTrace(h, p) ==
    <<EmitEvent(prior_to_change(p), h.m_value[p])>>
    \o EachOnce(h.m_slots[prior_to_change(p)], prior_to_change(p), h.m_value[p])
    \o <<EmitEvent(on_change(p), h.m_value[p])>>
    \o EachOnce(h.m_slots[on_change(p)], on_change(p), h.m_value[p])

Emits(l, g) == SelectSeq(l, LAMBDA e : e.ev = "emit" /\ e.at = g)

\* the signals whose table holds a forwarder of a
ForwardersOf(h, a) ==
    {<<g, k>> \in Sigs \X (1..MaxId + 1) :
        k \in DOMAIN h.m_slots[g] /\ h.m_slots[g][k] = Forward(a)}

\* a's dispatchers have fired once each for a change from old to new
FiredOnce(l, a, old, new) ==
    /\ Emits(l, prior_to_change(a)) = <<EmitEvent(prior_to_change(a), old)>>
    /\ Emits(l, on_change(a)) = <<EmitEvent(on_change(a), new)>>

\* the operation has left property a alone
Untouched(a) == m_value[a] = pre.m_value[a] /\ Fired(log, a) = <<>>

\* C4 as stated: while A is bound from B, every B.set(v2) with v2 different from
\* B's value leaves A.get() = v2 and fires A's prior_to_change (old value) and
\* on_change (v2) exactly once each, for every dependent of B.  (Taken here for
\* the dependents whose forwarder is connected, the case most in its favour.)
C4_Original ==
    (Returned /\ op.name = "set" /\ op.arg # pre.m_value[op.self])
        => \A a \in Props \ {op.self} :
              (pre.m_connection[a] = op.self /\ Forwarded(pre, a))
                  => /\ m_value[a] = op.arg
                     /\ FiredOnce(log, a, pre.m_value[a], op.arg)

\* C4 amended: A.connect_from(B) connects A's forwarder to B's on_change, and
\* B.set(v2) with v2 different from B's value leaves A.get() = v2 for every
\* dependent A whose forwarder is still connected to B's on_change; A's
\* dispatchers fire once each (old value, then v2) when A held another value and
\* not at all when A held v2 already.  A dependent whose forwarder
\* B.disconnect_auditors() has removed is left alone.
C4_SetReachesEveryForwardedDependent ==
    /\ (Returned /\ op.name = "connect_from") => Forwarded(Heap, op.self)
    /\ (Returned /\ op.name = "set" /\ op.arg # pre.m_value[op.self])
        => \A a \in Props \ {op.self} :
              pre.m_connection[a] = op.self
                  => IF Forwarded(pre, a)
                     THEN /\ m_value[a] = op.arg
                          /\ IF pre.m_value[a] # op.arg
                             THEN FiredOnce(log, a, pre.m_value[a], op.arg)
                             ELSE Fired(log, a) = <<>>
                     ELSE Untouched(a)

\* C4's case: a set on a source has updated two forwarded dependents, one that
\* held another value and one that held the new value already
C4_Witness ==
    /\ Returned /\ op.name = "set" /\ op.arg # pre.m_value[op.self]
    /\ \E a, c \in Props \ {op.self} :
          /\ a # c
          /\ pre.m_connection[a] = op.self /\ Forwarded(pre, a)
          /\ pre.m_connection[c] = op.self /\ Forwarded(pre, c)
          /\ pre.m_value[a] # op.arg /\ m_value[a] = op.arg
          /\ pre.m_value[c] = op.arg

\* C5: when A.connect_from(B) returns A.get() = B.get(); A's dispatchers fire
\* (prior_to_change with A's old value, then on_change with B's value) exactly
\* when A's value differed from B's; B's value and dispatchers are untouched.
C5_ConnectFromSynchronises ==
    (Returned /\ op.name = "connect_from")
        => /\ m_value[op.self] = m_value[op.src]
           /\ m_value[op.src] = pre.m_value[op.src]
           /\ Fired(log, op.self) =
                 IF pre.m_value[op.self] # pre.m_value[op.src]
                 THEN <<EmitEvent(prior_to_change(op.self), pre.m_value[op.self]),
                        StoreEvent(op.self, pre.m_value[op.src]),
                        EmitEvent(on_change(op.self), pre.m_value[op.src])>>
                 ELSE <<>>
           /\ op.src # op.self => Fired(log, op.src) = <<>>

\* C5's case: A.connect_from(B) has changed A while B is itself bound from A, so
\* that A's on_change has called B.set
C5_Witness ==
    /\ Returned /\ op.name = "connect_from" /\ op.src # op.self
    /\ pre.m_value[op.self] # pre.m_value[op.src]
    /\ pre.m_connection[op.src] = op.self /\ Forwarded(pre, op.src)
    /\ Len(CallsOf(log, on_change(op.self))) >= 1

\* C6: A.disconnect() leaves A unbound and removes its forwarder; on an unbound
\* property it changes nothing; and no operation on another property changes
\* the value of an unbound property or fires its dispatchers.
C6_DisconnectStopsPropagation ==
    /\ (Returned /\ op.name = "disconnect")
          => /\ m_connection[op.self] = nullptr
             /\ m_connection_id[op.self] = NoId
             /\ ForwardersOf(Heap, op.self) = {}
             /\ m_value = pre.m_value
             /\ log = <<>>
             /\ pre.m_connection[op.self] = nullptr => Heap = pre
    /\ (Returned /\ op.self # nullptr)
          => \A a \in Props \ {op.self} :
                pre.m_connection[a] = nullptr => Untouched(a)

\* C6's case: A has been disconnected from its source by disconnect(), and a
\* set that changes the source and still reaches another dependent has returned
C6_Witness ==
    /\ Returned /\ op.name = "set" /\ op.arg # pre.m_value[op.self]
    /\ \E a \in Props \ {op.self} :
          /\ pre.m_connection[a] = nullptr
          /\ former[a] = op.self
    /\ Len(CallsOf(log, on_change(op.self))) >= 1

\* every binding record of heap h has its forwarder connected, and every bound
\* property holds the value of its source
Mirrored(h) ==
    \A a \in Props :
        h.m_connection[a] # nullptr
            => Forwarded(h, a) /\ h.m_value[a] = h.m_value[h.m_connection[a]]

\* C9 as stated: whenever A is bound from S and nothing is on the call stack,
\* A.get() = S.get(), after any sequence of set, set_with_no_emit, touch,
\* connect_from, disconnect and disconnect_auditors.
C9_Original ==
    stack = <<>> =>
        \A a \in Props :
            m_connection[a] # nullptr => m_value[a] = m_value[m_connection[a]]

\* the operations that keep bound properties equal to their sources: touch,
\* connect_from, disconnect, and set on a property that is not itself bound
Propagating(o, h) ==
    \/ o.name \in {"touch", "connect_from", "disconnect"}
    \/ o.name = "set" /\ h.m_connection[o.self] = nullptr

\* C9 amended: connect_from makes A.get() = S.get(), and set on a property that is
\* not itself bound, touch, connect_from and disconnect keep every bound
\* property equal to its source when they return.  set_with_no_emit, a set on a
\* bound property and disconnect_auditors on a source do not.
C9_PropagatingOperationsKeepMirror ==
    /\ (Returned /\ op.name = "connect_from") => m_value[op.self] = m_value[op.src]
    /\ (Returned /\ Propagating(op, pre) /\ Mirrored(pre)) => Mirrored(Heap)

\* C9's case: a set has changed a source at the head of a chain of two bindings
C9_Witness ==
    /\ Returned /\ op.name = "set" /\ op.arg # pre.m_value[op.self]
    /\ Mirrored(pre)
    /\ pre.m_connection[op.self] = nullptr
    /\ \E a, c \in Props :
          /\ pre.m_connection[c] = op.self
          /\ pre.m_connection[a] = c
          /\ m_value[a] = op.arg

\* in heap h property x is bound from s, directly or through other properties,
\* by at most n bindings whose forwarders are connected
RECURSIVE Downstream(_, _, _, _)
Downstream(h, x, s, n) ==
    /\ n > 0
    /\ Forwarded(h, x)
    /\ \/ h.m_connection[x] = s
       \/ Downstream(h, h.m_connection[x], s, n - 1)

\* what A.connect_from(S2), called while A is bound from S, leaves in the tables:
\* no forwarder of A in S's on_change unless S2 is S, one forwarder of A in S2's
\* on_change, the one A records, and no fault
RebindIsClean ==
    (Returned /\ op.name = "connect_from" /\ pre.m_connection[op.self] # nullptr)
        => /\ ForwardersOf(Heap, op.self) = {<<on_change(op.src), m_connection_id[op.self]>>}
           /\ m_connection[op.self] = op.src
           /\ fault = "ok"

\* property a has been rebound away from the property that op is called on
ReboundAway(a) ==
    /\ former[a] = op.self
    /\ pre.m_connection[a] \notin {nullptr, op.self}

\* C10 as stated: after A.connect_from(S2), called while A is bound from S, S's
\* on_change holds no forwarder of A, S2's on_change holds exactly one, and when
\* S2 is not S a later S.set no longer changes A.
C10_Original ==
    /\ RebindIsClean
    /\ (Returned /\ op.name = "set")
          => \A a \in Props \ {op.self} :
                ReboundAway(a) => m_value[a] = pre.m_value[a]

\* C10 amended: after A.connect_from(S2), called while A is bound from S, S's
\* on_change holds no forwarder of A, S2's on_change holds exactly one, and when
\* S2 is not S a later S.set never invokes a forwarder of A from S's on_change:
\* it changes A only when S2 is itself bound from S, directly or through other
\* properties, and then A gets the value that was set.
C10_RebindLeavesOneForwarder ==
    /\ RebindIsClean
    /\ (Returned /\ op.name = "set")
          => \A a \in Props \ {op.self} :
                ReboundAway(a)
                    => /\ \A k \in DOMAIN pre.m_slots[on_change(op.self)] :
                              pre.m_slots[on_change(op.self)][k] # Forward(a)
                       /\ m_value[a] # pre.m_value[a]
                              => /\ Downstream(pre, pre.m_connection[a], op.self,
                                               Cardinality(Props))
                                 /\ m_value[a] = op.arg

\* C10's case: A has been rebound from S to S2, S2 is bound from S, and a set on
\* S has changed A through S2
C10_Witness ==
    /\ Returned /\ op.name = "set"
    /\ \E a \in Props \ {op.self} :
          /\ ReboundAway(a)
          /\ pre.m_connection[pre.m_connection[a]] = op.self
          /\ m_value[a] # pre.m_value[a]

\* C20: whenever property A records a binding (m_connection = S and
\* m_connection_id = id), S's on_change table holds the key id and it maps to A's
\* forwarder, after any sequence of set, touch, connect_from, disconnect and
\* disconnect_auditors; and A.disconnect() removes no slot other than A's own
\* forwarder.
C20_BindingRecordsAreConsistent ==
    /\ \A a \in Props : m_connection[a] # nullptr => Forwarded(Heap, a)
    /\ (Returned /\ op.name = "disconnect")
          => \A g \in Sigs : \A k \in DOMAIN pre.m_slots[g] \ DOMAIN m_slots[g] :
                pre.m_slots[g][k] = Forward(op.self)

(***************************************************************************)
(* Claims about chains of bindings, under Spec.                            *)
(***************************************************************************)
\* in heap h, mid is bound from top and leaf is bound from mid
Chain(h, top, mid, leaf) ==
    /\ h.m_connection[mid] = top /\ Forwarded(h, mid)
    /\ h.m_connection[leaf] = mid /\ Forwarded(h, leaf)

\* what a set that changes p from old to v does before its on_change slots run
Changes(p, old, v) ==
    <<EmitEvent(prior_to_change(p), old), StoreEvent(p, v), EmitEvent(on_change(p), v)>>

\* the invocation of the forwarder of dependent a by its source's on_change
Forwards(h, a, v) ==
    <<CallEvent(on_change(h.m_connection[a]), h.m_connection_id[a], v)>>

\* the whole cascade of top.set(v) down the chain, depth first
ChainTrace(h, top, mid, leaf, v) ==
    Changes(top, h.m_value[top], v) \o Forwards(h, mid, v)
    \o Changes(mid, h.m_value[mid], v) \o Forwards(h, leaf, v)
    \o Changes(leaf, h.m_value[leaf], v)

\* C13 as stated: with A bound from B and B bound from C, a single C.set(v) with
\* v new cascades in the order C.on_change -> B.set -> B.on_change -> A.set ->
\* A.on_change, and A, B and C all hold v before C.set returns.
C13_Original ==
    (Returned /\ op.name = "set" /\ op.arg # pre.m_value[op.self])
        => \A mid, leaf \in Props \ {op.self} :
              Chain(pre, op.self, mid, leaf)
                  => /\ log = ChainTrace(pre, op.self, mid, leaf, op.arg)
                     /\ \A p \in {op.self, mid, leaf} : m_value[p] = op.arg

\* C13 amended: with A bound from B and B bound from C, a C.set(v) with v new to
\* C cascades depth first, C.on_change -> B.set -> B.on_change -> A.set ->
\* A.on_change, before it returns, as far as the first property that holds v
\* already: when neither B nor A held v the whole cascade runs and all three hold
\* v; when A held v the cascade ends in A.set and all three hold v; when B held v
\* the cascade ends in B.set and A is left as it was.
C13_ChainCascadesDepthFirst ==
    (Returned /\ op.name = "set" /\ op.arg # pre.m_value[op.self])
        => \A mid, leaf \in Props \ {op.self} :
              Chain(pre, op.self, mid, leaf)
                  => LET v == op.arg
                         whole == ChainTrace(pre, op.self, mid, leaf, v)
                     IN  /\ m_value[op.self] = v /\ m_value[mid] = v
                         /\ CASE pre.m_value[mid] = v ->
                                   /\ log = SubSeq(whole, 1, 4)
                                   /\ m_value[leaf] = pre.m_value[leaf]
                              [] pre.m_value[mid] # v /\ pre.m_value[leaf] = v ->
                                   /\ log = SubSeq(whole, 1, 8)
                                   /\ m_value[leaf] = v
                              [] OTHER ->
                                   /\ log = whole
                                   /\ m_value[leaf] = v

\* C13's case: a set at the head of a chain of two bindings has returned after
\* changing all three properties
C13_Witness ==
    /\ Returned /\ op.name = "set"
    /\ \E mid, leaf \in Props \ {op.self} :
          /\ Chain(pre, op.self, mid, leaf)
          /\ \A p \in {op.self, mid, leaf} : pre.m_value[p] # op.arg /\ m_value[p] = op.arg
    /\ Len(log) = 11

(***************************************************************************)
(* Claims about the derived flag of test_property_2, under SpecFlag.       *)
(***************************************************************************)
\* the set changes on which side of the threshold the output value lies
Flips(old, new) == (old > Threshold) # (new > Threshold)

\* C18: starting from in = out = 0 and crit = false, after every in.set(v)
\* out.get() = v and crit.get() = (out.get() > threshold), and crit's on_change
\* fires, and its logger runs, once on a set on which the threshold predicate
\* flips and not at all on any other set.
C18_FlagFollowsThreshold ==
    (Returned /\ op.name = "set" /\ op.self = InputValue)
        => LET flag == IF op.arg > Threshold THEN 1 ELSE 0
               g == on_change(CriticalSituation)
           IN  /\ m_value[InputValue] = op.arg
               /\ m_value[OutputValue] = op.arg
               /\ m_value[CriticalSituation] = flag
               /\ pre.m_value[CriticalSituation]
                     = (IF pre.m_value[OutputValue] > Threshold THEN 1 ELSE 0)
               /\ IF Flips(pre.m_value[OutputValue], op.arg)
                  THEN /\ Emits(log, g) = <<EmitEvent(g, flag)>>
                       /\ CallsOf(log, g) = EachOnce(pre.m_slots[g], g, flag)
                  ELSE /\ Emits(log, g) = <<>>
                       /\ CallsOf(log, g) = <<>>

\* C18's case: after a set that changed the output below the threshold, a set
\* has taken it above the threshold and the logger has run once
C18_Witness ==
    /\ Returned /\ op.name = "set" /\ op.self = InputValue
    /\ pre.m_value[OutputValue] # 0 /\ pre.m_value[OutputValue] <= Threshold
    /\ op.arg > Threshold
    /\ m_value[CriticalSituation] = 1
    /\ Len(CallsOf(log, on_change(CriticalSituation))) = 1

(***************************************************************************)
(* Claims about cycles of bindings, under SpecCycleLive.                   *)
(***************************************************************************)
\* in heap h properties a and b are bound from each other
Mutual(h, a, b) ==
    /\ a # b
    /\ h.m_connection[a] = b /\ Forwarded(h, a)
    /\ h.m_connection[b] = a /\ Forwarded(h, b)

\* C12 as stated: with A bound from B and B bound from A, a set of a new value
\* on either starts a cascade A.set -> B.set -> A.set -> ... that never
\* terminates, so such a set never returns.
C12_Original ==
    ~(/\ Returned /\ op.name = "set" /\ op.arg # pre.m_value[op.self]
      /\ \E b \in Props : Mutual(pre, op.self, b))

\* C12 amended: with A bound from B and B bound from A, every call returns: a
\* set of a new value v on A stores v in A, calls B.set(v), which stores v in B
\* unless B holds it already and calls A.set(v), which returns at the equality
\* test.  The stack never grows beyond set, emit, set, emit, set, each property
\* is stored at most once, and both hold v when the set returns.
C12_MutualBindingTerminates ==
    /\ [](Len(stack) <= 5)
    /\ []((/\ Returned /\ op.name = "set" /\ op.arg # pre.m_value[op.self]
           /\ \E b \in Props : Mutual(pre, op.self, b))
            => /\ \A p \in CycleProps : m_value[p] = op.arg
               /\ \A p \in CycleProps :
                     Len(SelectSeq(log, LAMBDA e : e = StoreEvent(p, op.arg))) <= 1
               /\ Len(SelectSeq(log, LAMBDA e : e.ev = "store")) \in {1, 2})
    /\ (stack # <<>>) ~> (stack = <<>>)

\* C12's case: a set of a new value on a property bound from, and forwarding to,
\* another one that held a different value has returned
C12_Witness ==
    /\ Returned /\ op.name = "set" /\ op.arg # pre.m_value[op.self]
    /\ \E b \in Props : Mutual(pre, op.self, b) /\ pre.m_value[b] # op.arg
    /\ Len(SelectSeq(log, LAMBDA e : e.ev = "store")) = 2

(***************************************************************************)
(* Claims about nested sets, under SpecReentrant.                          *)
(***************************************************************************)
\* C19: in every execution of set, also one that a slot starts on the same
\* property from inside prior_to_change or on_change: on_change fires only if
\* the store changed the value held, the value passed to prior_to_change is the
\* value that the store replaces, and the value passed to each on_change slot is
\* get() at the moment the slot is invoked.
C19_NestedSetsKeepGatingAndPairing ==
    /\ (Running /\ Top.fn = "set" /\ Top.pc = "store")
          => /\ Value(Top) # m_value[Top.self]
             /\ Top.old = m_value[Top.self]
    /\ (Running /\ Top.fn = "emit" /\ Top.pc = "call" /\ Top.sig[2] = "m_on_change")
          => Top.arg = m_value[Top.sig[1]]

(***************************************************************************)
(* Claims about the end of a property's lifetime, under SpecLifetime.      *)
(***************************************************************************)
\* C11: destroying a property that is bound from a source releases its binding:
\* once the dependent is destroyed no on_change table holds a forwarder of it,
\* and no emit of the source calls into the destroyed object.
C11_DestructionReleasesBinding ==
    /\ \A a \in destroyed : ForwardersOf(Heap, a) = {}
    /\ (Running /\ Top.fn = "emit" /\ Top.pc = "call")
          => ~Dangling(m_slots[Top.sig][Top.it])
    /\ fault = "ok"

=============================================================================
